---- MODULE Spec2Model ----
(***************************************************************************)
(* Model of iatv/iatv.py: the windowed caption fetch (_srt_gen_from_url),  *)
(* the stitching of the windows' cues onto one timeline, and the Show      *)
(* handle that caches the stitched document and its transcript             *)
(* (Show.get_transcript, _make_ts_from_srt).                               *)
(*                                                                         *)
(* One call of get_transcript is a small process: it resolves end_time,    *)
(* then '\n\n'.join pulls the generator one window at a time (one Fetch*   *)
(* step per loop iteration), and when the generator is exhausted the rest  *)
(* of the method body runs (Finish).                                       *)
(*                                                                         *)
(* Representation.  A cue is a record [idx, start, end, text]; times are   *)
(* integers (pycaption keeps microseconds, SRT carries milliseconds, and   *)
(* the only arithmetic the code does on them is addition, which is exact   *)
(* in either unit).  A window payload is the sequence of its cues, the     *)
(* empty sequence being the empty body.  The joined document (Show.srt)    *)
(* is the sequence of the pieces the generator yielded, '' being <<>>.     *)
(***************************************************************************)
EXTENDS Integers, Sequences, FiniteSets, TLC

VARIABLES
    archive,          \* the remote archive: window number -> payload served
    served,           \* the remote archive: what get_show_metadata delivered
    metadata,         \* Show.metadata: [loaded, runtime]
    title,            \* Show.title: [none, span]
    srt,              \* Show.srt
    srt_fname,        \* Show.srt_fname
    transcript,       \* Show.transcript
    last_start_time,  \* Show.last_start_time
    last_end_time,    \* Show.last_end_time
    pc,               \* "idle" or "running" (a get_transcript call in progress)
    end_time,         \* the end_time the generator was created with
    t0, t1,           \* _srt_gen_from_url: the window to request next
    has_next,         \* _srt_gen_from_url: loop condition
    first,            \* _srt_gen_from_url: first-iteration flag
    last_end,         \* _srt_gen_from_url: the offset accumulator
    parts,            \* the pieces yielded so far (what join has collected)
    fetched,          \* the ranges <<t0, t1>> requested from the archive in this call
    args,             \* <<start_time, end_time>> as passed to the current or last call
    ret               \* how the last call ended: [kind, error, value]

vars == <<archive, served, metadata, title, srt, srt_fname, transcript, last_start_time,
          last_end_time, pc, end_time, t0, t1, has_next, first, last_end, parts,
          fetched, args, ret>>

show == <<srt, srt_fname, transcript>>

-----------------------------------------------------------------------------
(* Bounds of the model *)

\* number of leading windows for which the archive holds caption data
MaxWindows == 3

\* requested end times are the multiples of half a window up to MaxEndHalves halves
MaxEndHalves == 6

-----------------------------------------------------------------------------
(* Program constants *)

dt == 60

FallbackEnd == 3600

\* Python's None for the start_time / end_time arguments and attributes
None == -1

EmptyStr == <<>>

SrtFileName == "Test_Show.cc5.srt"

TranscriptHeader == "* EN-US Transcript *"

SpeakerMark == ">>"

-----------------------------------------------------------------------------
(* Helpers on sequences *)

Last(s) == s[Len(s)]

Front(s) == SubSeq(s, 1, Len(s) - 1)

RECURSIVE Flatten(_)
Flatten(ss) == IF ss = <<>> THEN <<>> ELSE Head(ss) \o Flatten(Tail(ss))

-----------------------------------------------------------------------------
(* Inputs: what the archive may serve for a window *)

Cue(i, s, e, txt) == [idx |-> i, start |-> s, end |-> e, text |-> txt]

\* two cues in time order, the second opening with a speaker mark
PayloadA == << Cue(1, 0, 10, <<"a">>), Cue(2, 10, 60, <<SpeakerMark, "b">>) >>

\* one cue that does not start at 0; the archive numbers on from earlier windows
PayloadB == << Cue(3, 5, 20, <<"c">>) >>

\* two cues out of time order
PayloadC == << Cue(1, 20, 30, <<"d">>), Cue(2, 0, 8, <<"e">>) >>

Payloads == {<<>>, PayloadA, PayloadB, PayloadC}

Archives == [1..MaxWindows -> Payloads]

EndTimes == {k * (dt \div 2) : k \in 0..MaxEndHalves}

StartTimes == {None, 0}

\* the requests of a call at which the archive may answer with a failure status
\* or an unparsable body: those for the windows that hold captions and the one
\* after them
FailureWindows == 1..(MaxWindows + 1)

\* the body the archive returns for the range t=a/b: window n ends at n * dt;
\* past the show's captions the body is empty
PayloadAt(a, b) ==
    IF (b \div dt) \in DOMAIN archive THEN archive[b \div dt] ELSE <<>>

-----------------------------------------------------------------------------
(* pycaption as the code uses it *)

\* cc.read(srt, SRTReader()): the sequence-number line of a block is only
\* tested for being a number and is not kept in the caption
ReadSRT(body) ==
    [i \in 1..Len(body) |->
        [start |-> body[i].start, end |-> body[i].end, text |-> body[i].text]]

\* cc.write(SRTWriter()): every write numbers its captions from 1
WriteSRT(captions) ==
    [i \in 1..Len(captions) |->
        Cue(i, captions[i].start, captions[i].end, captions[i].text)]

-----------------------------------------------------------------------------
(* _srt_gen_from_url: the loop body as functions of the locals *)

\* mutant: the next window starts where the last one ended
NextT0NoGap(b) == b

NextT0(b) == b + 1

NextT1(b) == b + dt

\* mutant: the loop stops one window early when the end falls on a boundary
HasNextStrict(b, e) == b < e

\* mutant: the loop runs on for one window past the end time
HasNextOneMore(b, e) == b <= e + dt

HasNext(b, e) == b <= e

\* mutant: only the start of a caption is shifted
OffsetStartOnly(captions, off) ==
    [i \in 1..Len(captions) |-> [captions[i] EXCEPT !.start = @ + off]]

\* for caption in captions: caption.start += last_end; caption.end += last_end
OffsetCaptions(captions, off) ==
    [i \in 1..Len(captions) |->
        [captions[i] EXCEPT !.start = @ + off, !.end = @ + off]]

\* mutant: the accumulator takes the window's raw end, read before the shift
RebaseRawEnd(captions, firstFlag, off) ==
    [captions |-> IF firstFlag THEN captions ELSE OffsetCaptions(captions, off),
     last_end |-> Last(captions).end]

\* if first: ... else: ...   (with the value `first` has at that line)
Rebase(captions, firstFlag, off) ==
    IF firstFlag
    THEN [captions |-> captions, last_end |-> Last(captions).end]
    ELSE LET shifted == OffsetCaptions(captions, off)
         IN  [captions |-> shifted, last_end |-> Last(shifted).end]

\* mutant: an empty window resets the accumulator
StitchWindowResetOnEmpty(body, firstFlag, off) ==
    IF body # <<>>
    THEN LET r == Rebase(ReadSRT(body), firstFlag, off)
         IN  [piece |-> WriteSRT(r.captions), last_end |-> r.last_end]
    ELSE [piece |-> <<>>, last_end |-> 0]

\* mutant: an empty window moves the accumulator on by the window width
StitchWindowEmptyAdvances(body, firstFlag, off) ==
    IF body # <<>>
    THEN LET r == Rebase(ReadSRT(body), firstFlag, off)
         IN  [piece |-> WriteSRT(r.captions), last_end |-> r.last_end]
    ELSE [piece |-> <<>>, last_end |-> off + dt]

\* if srt: ... yield srt  else: yield ''
StitchWindow(body, firstFlag, off) ==
    IF body # <<>>
    THEN LET r == Rebase(ReadSRT(body), firstFlag, off)
         IN  [piece |-> WriteSRT(r.captions), last_end |-> r.last_end]
    ELSE [piece |-> <<>>, last_end |-> off]

\* '\n\n'.join(pieces): one empty piece joins to the empty string
Join(ps) == IF ps = << <<>> >> THEN EmptyStr ELSE ps

\* the cues of a joined document, in document order
DocCues(doc) == Flatten(doc)

-----------------------------------------------------------------------------
(* _make_ts_from_srt *)

\* c.read(srt, SRTReader()): the reader takes blocks for as long as the line
\* a block starts on is a number, and raises when it has taken none.  Blank
\* lines between two blocks are skipped, so an empty piece after a piece with
\* cues is harmless; but a document whose first piece is empty begins with
\* the blank lines '\n\n'.join put before the next piece, its first line is
\* not a number, and the reader stops there with no caption: it raises even
\* when later pieces hold cues.
Readable(doc) == doc # <<>> /\ Head(doc) # <<>>

RECURSIVE SplitOnMark(_, _)
SplitOnMark(toks, cur) ==
    IF toks = <<>> THEN <<cur>>
    ELSE IF Head(toks) = SpeakerMark
         THEN <<cur>> \o SplitOnMark(Tail(toks), <<>>)
         ELSE SplitOnMark(Tail(toks), Append(cur, Head(toks)))

RECURSIVE CueTexts(_)
CueTexts(cues) ==
    IF cues = <<>> THEN <<>> ELSE Head(cues).text \o CueTexts(Tail(cues))

\* TranscriptWriter output, newlines to spaces, split('>>')
MakeTs(doc) == SplitOnMark(<<TranscriptHeader>> \o CueTexts(DocCues(doc)), <<>>)

-----------------------------------------------------------------------------
(* Show.__init__ and the resolution of end_time in get_transcript *)

RuntimeSeconds(rt) == (3600 * rt[1]) + (60 * rt[2]) + rt[3]

\* timedelta_from_title: (et - st).seconds; raises when the title is None or
\* holds no 'h:mmam-h:mmpm' span
TitleHasSpan(ttl) == ~ttl.none /\ ttl.span # <<>>

TimedeltaFromTitle(ttl) == (ttl.span[2] - ttl.span[1]) % 86400

\* what get_show_metadata may deliver to the constructor
MetadataInputs ==
    { [ok |-> FALSE, runtime |-> <<>>, span |-> <<>>],
      [ok |-> TRUE, runtime |-> << <<0, 2, 30>> >>, span |-> <<>>],
      [ok |-> TRUE, runtime |-> << <<0, 2, 30>> >>, span |-> <<68400, 68520>>],
      [ok |-> TRUE, runtime |-> << <<0, 1, 0>>, <<0, 2, 30>> >>, span |-> <<>>] }

\* self.metadata after __init__: runtime.pop() has removed the last entry
InitMetadata(m) ==
    IF m.ok THEN [loaded |-> TRUE, runtime |-> Front(m.runtime)]
    ELSE [loaded |-> FALSE, runtime |-> <<>>]

InitTitle(m) ==
    IF m.ok THEN [none |-> FALSE, span |-> m.span]
    ELSE [none |-> TRUE, span |-> <<>>]

Falsy(t) == t = None \/ t = 0

\* `if not end_time:` ... the end time handed to the generator
ResolveEndTime(et) ==
    IF ~Falsy(et) THEN et
    ELSE IF metadata.runtime # <<>> THEN RuntimeSeconds(Last(metadata.runtime))
    ELSE IF TitleHasSpan(title) THEN TimedeltaFromTitle(title)
    ELSE FallbackEnd

\* metadata['runtime'] after the pop of that resolution
RuntimeAfterResolve(et) ==
    IF Falsy(et) /\ metadata.runtime # <<>> THEN Front(metadata.runtime)
    ELSE metadata.runtime

\* `not self.transcript or updated_times`
MustFetch(st, et) ==
    \/ transcript = EmptyStr
    \/ (last_start_time = st /\ last_end_time = et)

-----------------------------------------------------------------------------
(* The except clause of get_transcript.  warnings.warn is built from        *)
(* e.message, an attribute exceptions have on Python 2 only: there the      *)
(* handler warns and the method returns self.transcript; on Python 3 the    *)
(* attribute lookup raises out of the handler.  Both are outcomes.          *)

HandlerOutcomes == {"warn", "raise"}

OnException(err, how) ==
    IF how = "warn"
    THEN [kind |-> "returned", error |-> err, value |-> transcript]
    ELSE [kind |-> "raised", error |-> err, value |-> EmptyStr]

NoReturn == [kind |-> "none", error |-> "none", value |-> EmptyStr]

-----------------------------------------------------------------------------
(* State after Show(identifier) *)

Init ==
    /\ archive \in Archives
    /\ served \in MetadataInputs
    /\ metadata = InitMetadata(served)
    /\ title = InitTitle(served)
    /\ srt = EmptyStr
    /\ srt_fname = ""
    /\ transcript = EmptyStr
    /\ last_start_time = None
    /\ last_end_time = None
    /\ pc = "idle"
    /\ end_time = None
    /\ t0 = 0
    /\ t1 = 0
    /\ has_next = FALSE
    /\ first = FALSE
    /\ last_end = 0
    /\ parts = <<>>
    /\ fetched = <<>>
    /\ args = <<None, None>>
    /\ ret = NoReturn

handle == <<srt, srt_fname, transcript, last_start_time, last_end_time>>

\* the locals of a call are dead once it has ended
ResetGenerator ==
    /\ t0' = 0
    /\ t1' = 0
    /\ has_next' = FALSE
    /\ first' = FALSE
    /\ last_end' = 0
    /\ parts' = <<>>

-----------------------------------------------------------------------------
(* get_transcript *)

\* the cached transcript is returned without any fetch
CallCached(st, et) ==
    /\ pc = "idle"
    /\ ~MustFetch(st, et)
    /\ ret' = [kind |-> "returned", error |-> "none", value |-> transcript]
    /\ end_time' = None
    /\ fetched' = <<>>
    /\ ResetGenerator
    /\ args' = <<st, et>>
    /\ UNCHANGED <<archive, served, metadata, title, handle, pc>>

\* no end_time and no metadata: self.metadata['runtime'] raises TypeError,
\* which `except IndexError` does not catch
CallNoMetadata(st, et) ==
    /\ pc = "idle"
    /\ MustFetch(st, et)
    /\ Falsy(et)
    /\ ~metadata.loaded
    /\ ret' = [kind |-> "raised", error |-> "TypeError", value |-> EmptyStr]
    /\ end_time' = None
    /\ fetched' = <<>>
    /\ ResetGenerator
    /\ args' = <<st, et>>
    /\ UNCHANGED <<archive, served, metadata, title, handle, pc>>

\* mutant: the accumulator is kept on the handle and carried into the next call
InitialLastEndCarried ==
    IF DocCues(srt) # <<>> THEN Last(DocCues(srt)).end ELSE 0

\* last_end = 0.0
InitialLastEnd == 0

\* end_time is resolved and the generator is created (its body has not run)
CallStart(st, et) ==
    /\ pc = "idle"
    /\ MustFetch(st, et)
    /\ Falsy(et) => metadata.loaded
    /\ end_time' = ResolveEndTime(et)
    /\ metadata' = [metadata EXCEPT !.runtime = RuntimeAfterResolve(et)]
    /\ t0' = 0
    /\ t1' = 0 + dt
    /\ has_next' = TRUE
    /\ first' = TRUE
    /\ last_end' = InitialLastEnd
    /\ parts' = <<>>
    /\ fetched' = <<>>
    /\ ret' = NoReturn
    /\ pc' = "running"
    /\ args' = <<st, et>>
    /\ UNCHANGED <<archive, served, title, handle>>

\* one loop iteration: the fetch succeeds and the body parses (or is empty)
FetchOk ==
    /\ pc = "running"
    /\ has_next
    /\ LET body == PayloadAt(t0, t1)
           firstNow == IF first THEN FALSE ELSE first
           w == StitchWindow(body, firstNow, last_end)
       IN  /\ fetched' = Append(fetched, <<t0, t1>>)
           /\ first' = firstNow
           /\ t0' = NextT0(t1)
           /\ t1' = NextT1(t1)
           /\ has_next' = HasNext(NextT1(t1), end_time)
           /\ last_end' = w.last_end
           /\ parts' = Append(parts, w.piece)
    /\ UNCHANGED <<archive, served, metadata, title, handle, pc, end_time, args, ret>>

\* mutant: the pieces collected before the exception are stored
AbortKeepPartial(err, how) ==
    /\ ret' = OnException(err, how)
    /\ pc' = "idle"
    /\ ResetGenerator
    /\ srt' = Join(parts)
    /\ UNCHANGED <<archive, served, metadata, title, srt_fname, transcript,
                   last_start_time, last_end_time, end_time, args>>

\* an exception leaves the generator and join; the except clause runs
Abort(err, how) ==
    /\ ret' = OnException(err, how)
    /\ pc' = "idle"
    /\ ResetGenerator
    /\ UNCHANGED <<archive, served, metadata, title, handle, end_time, args>>

\* mutant: a failed fetch is tried again
FetchFailRetry ==
    /\ pc = "running"
    /\ has_next
    /\ (Len(fetched) + 1) \in FailureWindows
    /\ fetched' = Append(fetched, <<t0, t1>>)
    /\ UNCHANGED <<archive, served, metadata, title, handle, pc, end_time, t0, t1,
                   has_next, first, last_end, parts, args, ret>>

\* the fetch returns a failure status: res.raise_for_status() raises
FetchFail ==
    /\ pc = "running"
    /\ has_next
    /\ (Len(fetched) + 1) \in FailureWindows
    /\ fetched' = Append(fetched, <<t0, t1>>)
    /\ \E how \in HandlerOutcomes : Abort("HTTPError", how)

\* the fetch succeeds with a body that SRTReader cannot parse
FetchUnparsable ==
    /\ pc = "running"
    /\ has_next
    /\ (Len(fetched) + 1) \in FailureWindows
    /\ fetched' = Append(fetched, <<t0, t1>>)
    /\ \E how \in HandlerOutcomes : Abort("ParseError", how)

\* the generator is exhausted: join returns, and the rest of the try block runs:
\* srt and srt_fname are assigned, then _make_ts_from_srt either gives the
\* transcript or raises into the except clause with transcript left as it was
Finish ==
    /\ pc = "running"
    /\ ~has_next
    /\ srt' = Join(parts)
    /\ srt_fname' = SrtFileName
    /\ IF Readable(Join(parts))
       THEN /\ transcript' = MakeTs(Join(parts))
            /\ ret' = [kind |-> "returned", error |-> "none",
                       value |-> MakeTs(Join(parts))]
       ELSE /\ transcript' = transcript
            /\ \E how \in HandlerOutcomes : ret' = OnException("NoCaptions", how)
    /\ pc' = "idle"
    /\ ResetGenerator
    /\ UNCHANGED <<archive, served, metadata, title, last_start_time,
                   last_end_time, end_time, fetched, args>>

Next ==
    \/ \E st \in StartTimes, et \in EndTimes \cup {None} : CallCached(st, et)
    \/ \E st \in StartTimes, et \in EndTimes \cup {None} : CallNoMetadata(st, et)
    \/ \E st \in StartTimes, et \in EndTimes \cup {None} : CallStart(st, et)
    \/ FetchOk
    \/ FetchFail
    \/ FetchUnparsable
    \/ Finish

Spec == Init /\ [][Next]_vars

\* a call in progress goes on: requests.get returns, and join keeps pulling
\* the generator until it is exhausted or raises
RunStep == FetchOk \/ FetchFail \/ FetchUnparsable \/ Finish

\* the runs of a call do not depend on what the windows hold: the fair
\* behaviours are explored over the archives that serve one payload throughout
UniformArchives == {[n \in 1..MaxWindows |-> p] : p \in Payloads}

FairInit == Init /\ archive \in UniformArchives

FairSpec == FairInit /\ [][Next]_vars /\ WF_vars(RunStep)

-----------------------------------------------------------------------------
(* Vocabulary of the properties *)

\* the body the archive served for the n-th request of the current call
Body(n) == PayloadAt(fetched[n][1], fetched[n][2])

\* the generator has yielded every piece of a call, or the call has just stored them
Stitching == pc = "running"

Stored ==
    /\ pc = "idle"
    /\ ret.error \in {"none", "NoCaptions"}
    /\ fetched # <<>>

FetchingDone == (pc = "running" /\ ~has_next) \/ Stored

\* the pieces of the document of the current call, one per window
Pieces == IF pc = "running" THEN parts ELSE srt

TimeOrdered(body) ==
    /\ \A i \in 1..Len(body) : 0 <= body[i].start /\ body[i].start <= body[i].end
    /\ \A i \in 1..(Len(body) - 1) :
          /\ body[i].start <= body[i + 1].start
          /\ body[i].end <= body[i + 1].end

NonEmpty(x) == x # <<>>

\* the n-th range the code requests
Window(n) == IF n = 1 THEN <<0, dt>> ELSE <<((n - 1) * dt) + 1, n * dt>>

-----------------------------------------------------------------------------
(* C1: when every window fetched so far was non-empty and time-ordered, the  *)
(* cue start and end times of the assembled document never decrease in       *)
(* document order, and no cue of a window starts before the last cue of the  *)
(* window before it ends.                                                    *)
C1_TimesNonDecreasing ==
    LET cues == DocCues(Pieces)
    IN  ( /\ Stitching \/ Stored
          /\ \A n \in 1..Len(Pieces) : NonEmpty(Body(n)) /\ TimeOrdered(Body(n)) )
        =>
        /\ \A k \in 1..(Len(cues) - 1) :
              /\ cues[k].start <= cues[k + 1].start
              /\ cues[k].end <= cues[k + 1].end
        /\ \A n \in 1..(Len(Pieces) - 1) :
              \A k \in 1..Len(Pieces[n + 1]) :
                 Last(Pieces[n]).end <= Pieces[n + 1][k].start

\* three non-empty, time-ordered windows have been stitched and stored
C1_Witness ==
    /\ Stored
    /\ Len(srt) = 3
    /\ \A n \in 1..3 : NonEmpty(Body(n)) /\ TimeOrdered(Body(n))
    /\ Body(2) # Body(3)

-----------------------------------------------------------------------------
(* C2: in the stored document the cue sequence indices are 1, 2, ..., N in   *)
(* document order, not restarting at each window.                            *)
C2_IndicesContiguous ==
    Stored => \A k \in 1..Len(DocCues(srt)) : DocCues(srt)[k].idx = k

-----------------------------------------------------------------------------
(* C3: for two adjacent non-empty windows n and n+1, every cue of window     *)
(* n+1 is emitted with its raw start and end increased by exactly the        *)
(* (already offset) end of the last cue of window n, and after window n+1    *)
(* the accumulator is the emitted end of that window's last cue.             *)
C3_OffsetExact ==
    (Stitching \/ Stored) =>
    \A n \in 1..(Len(Pieces) - 1) :
       (NonEmpty(Body(n)) /\ NonEmpty(Body(n + 1))) =>
          LET E == Last(Pieces[n]).end
          IN  /\ Len(Pieces[n + 1]) = Len(Body(n + 1))
              /\ \A k \in 1..Len(Body(n + 1)) :
                    /\ Pieces[n + 1][k].start = Body(n + 1)[k].start + E
                    /\ Pieces[n + 1][k].end = Body(n + 1)[k].end + E
              /\ (Stitching /\ n + 1 = Len(parts)) =>
                    last_end = Last(parts[n + 1]).end

\* a third window has been shifted by the accumulated end of two windows
C3_Witness ==
    /\ Stitching
    /\ Len(parts) = 3
    /\ \A n \in 1..3 : NonEmpty(Body(n))
    /\ last_end > Last(Body(2)).end + Last(Body(3)).end

-----------------------------------------------------------------------------
(* C4: the empty windows of a run are transparent: they yield no cues, and   *)
(* the non-empty pieces and the accumulator are those of the run over the    *)
(* same windows with the empty ones left out.                                *)
RECURSIVE StitchAll(_, _, _)
StitchAll(bodies, acc, off) ==
    IF bodies = <<>> THEN [pieces |-> acc, last_end |-> off]
    ELSE LET w == StitchWindow(Head(bodies), FALSE, off)
         IN  StitchAll(Tail(bodies), Append(acc, w.piece), w.last_end)

C4_EmptyTransparent ==
    Stitching =>
    LET bodies == [n \in 1..Len(parts) |-> Body(n)]
        ref == StitchAll(SelectSeq(bodies, NonEmpty), <<>>, 0)
    IN  /\ \A n \in 1..Len(parts) : bodies[n] = <<>> => parts[n] = <<>>
        /\ SelectSeq(parts, NonEmpty) = ref.pieces
        /\ last_end = ref.last_end

\* an empty window lies between two non-empty ones
C4_Witness ==
    /\ Stitching
    /\ Len(parts) = 3
    /\ NonEmpty(Body(1)) /\ Body(2) = <<>> /\ NonEmpty(Body(3))
    /\ parts[3][1].start = Body(3)[1].start + Last(parts[1]).end
    /\ Last(parts[1]).end > 0

-----------------------------------------------------------------------------
(* C5 as stated: the first window starts at 0, every window has width dt,    *)
(* and each window starts one unit after the end of the one before it.       *)
C5_EveryWindowWidthW ==
    /\ fetched # <<>> => fetched[1][1] = 0
    /\ \A i \in 1..Len(fetched) : fetched[i][2] = fetched[i][1] + dt
    /\ \A i \in 1..(Len(fetched) - 1) : fetched[i + 1][1] = fetched[i][2] + 1

(* C5 amended: the first window is 0/dt; each later window starts one unit   *)
(* after the end of the one before it and ends dt after that end, so only    *)
(* the first window has width dt and every later window has width dt - 1.    *)
C5_WindowEndsStepByW ==
    /\ fetched # <<>> => fetched[1] = <<0, dt>>
    /\ \A i \in 1..(Len(fetched) - 1) :
          /\ fetched[i + 1][1] = fetched[i][2] + 1
          /\ fetched[i + 1][2] = fetched[i][2] + dt
          /\ fetched[i + 1][2] = fetched[i + 1][1] + (dt - 1)

\* a call has requested three windows
C5_Witness == Len(fetched) = 3 /\ fetched[3] = <<(2 * dt) + 1, 3 * dt>>

-----------------------------------------------------------------------------
(* C6: when the end time E is a positive multiple of dt and no fetch fails,  *)
(* the ranges requested are exactly 0/dt, then (dt*k + 1)/(dt*(k + 1)) for   *)
(* k = 1 .. E/dt - 1, in this order.                                         *)
C6_ExactRequests ==
    (FetchingDone /\ end_time > 0 /\ end_time % dt = 0) =>
        fetched = [n \in 1..(end_time \div dt) |-> Window(n)]

\* the call for E = 2 * dt has fetched 0/60 and 61/120 and nothing else
C6_Witness ==
    /\ Stored
    /\ end_time = 2 * dt
    /\ fetched = << <<0, dt>>, <<dt + 1, 2 * dt>> >>

-----------------------------------------------------------------------------
(* C7: no window whose end exceeds the end time E is ever fetched.           *)
C7_NoWindowPastEnd ==
    \A i \in 1..Len(fetched) : fetched[i][2] <= end_time

-----------------------------------------------------------------------------
(* C8: the windows fetched by a call that completes cover every time unit    *)
(* of [0, E].                                                                *)
C8_CoversWholeRange ==
    FetchingDone =>
        \A t \in 0..end_time :
           \E i \in 1..Len(fetched) : fetched[i][1] <= t /\ t <= fetched[i][2]

-----------------------------------------------------------------------------
(* C9: a call in which a fetch returned a failure status ends in a failure   *)
(* raised to the caller and returns nothing.                                 *)
C9_FetchFailureSurfaced ==
    (pc = "idle" /\ ret.error = "HTTPError") =>
        (ret.kind = "raised" /\ ret.value = EmptyStr)

-----------------------------------------------------------------------------
(* C10: no step of a call other than its successful completion changes srt,  *)
(* srt_fname or transcript, so a call whose fetch of window i fails leaves   *)
(* all three as they were before the call; what such a call hands back is    *)
(* nothing or the transcript cached before it, never a prefix of the new     *)
(* timeline.                                                                 *)
C10_PartialDiscarded ==
    [][ /\ (pc' = "running" \/ (pc = "running" /\ has_next)) => UNCHANGED show
        /\ (pc = "running" /\ ret'.error = "HTTPError") =>
              ret'.value \in {EmptyStr, transcript} ]_vars

\* the fetch of the third window failed after two non-empty windows were stitched,
\* on a handle that held a transcript from an earlier call
C10_Witness ==
    /\ pc = "idle"
    /\ ret.error = "HTTPError"
    /\ Len(fetched) = 3
    /\ NonEmpty(Body(1)) /\ NonEmpty(Body(2))
    /\ transcript # EmptyStr
    /\ ret.value = transcript

-----------------------------------------------------------------------------
(* Vocabulary of the cache properties *)

\* the last call handed a transcript back without any failure
LastCallSucceeded ==
    /\ pc = "idle"
    /\ ret.kind = "returned"
    /\ ret.error = "none"
    /\ transcript # EmptyStr

\* the end time of the new arguments can be resolved (given, or metadata loaded)
Resolvable(a) == ~Falsy(a[2]) \/ metadata.loaded

-----------------------------------------------------------------------------
(* C11: after a successful call, a call whose (start_time, end_time) differs *)
(* from that call's starts a new fetch run for the new range, and a run that *)
(* has stored its result has recorded its range on the handle.               *)
C11_NewRangeRecomputes ==
    [][ /\ (LastCallSucceeded /\ args' # args /\ Resolvable(args')) =>
              (pc' = "running" /\ fetched' = <<>>)
        /\ (Stored' /\ ret'.error = "none") =>
              (last_start_time' = args'[1] /\ last_end_time' = args'[2]) ]_vars

-----------------------------------------------------------------------------
(* C12: after a successful call, a call with the same (start_time, end_time) *)
(* (None included) issues no fetch, leaves srt and transcript unchanged and  *)
(* returns the cached transcript.                                            *)
C12_SameRangeIsCacheHit ==
    [][ (LastCallSucceeded /\ args' = args) =>
           /\ pc' = "idle"
           /\ fetched' \in {fetched, <<>>}
           /\ UNCHANGED <<srt, transcript>>
           /\ ret'.value = transcript ]_vars

-----------------------------------------------------------------------------
(* C13: on a handle without metadata, a call without end_time does not fail: *)
(* it runs the fetch with the fallback duration.                             *)
C13_NoMetadataFallsBack ==
    (~metadata.loaded /\ Falsy(args[2]) /\ (pc = "running" \/ ret # NoReturn)) =>
        /\ ret.error # "TypeError"
        /\ pc = "running" => end_time = FallbackEnd

-----------------------------------------------------------------------------
(* C14: within one call every range is requested at most once, requests are  *)
(* only made by a run in which no fetch has failed, and the step in which a  *)
(* fetch fails ends the run.                                                 *)
C14_AbortWithoutRetry ==
    [][ /\ (fetched' # fetched /\ fetched' # <<>>) =>
              /\ pc = "running"
              /\ ret.error = "none"
              /\ fetched' = Append(fetched, <<t0, t1>>)
              /\ \A i \in 1..Len(fetched) : fetched[i] # <<t0, t1>>
        /\ (pc = "running" /\ ret'.error = "HTTPError") => pc' = "idle" ]_vars

\* the third fetch of a call failed and the call has ended
C14_Witness ==
    /\ pc = "idle"
    /\ ret.error = "HTTPError"
    /\ Len(fetched) = 3
    /\ end_time > 3 * dt

-----------------------------------------------------------------------------
(* C15: a run over the same windows as the run that produced the stored      *)
(* document yields that same document again.                                 *)
C15_Idempotent ==
    (pc = "running" /\ ~has_next /\ srt # EmptyStr /\ Len(srt) = Len(parts)) =>
        Join(parts) = srt

\* a second run over two windows with cues has ended with a non-zero accumulator
C15_Witness ==
    /\ pc = "running" /\ ~has_next
    /\ Len(srt) = 2 /\ Len(parts) = 2
    /\ NonEmpty(srt[1]) /\ NonEmpty(srt[2])
    /\ last_end > 0
    /\ Join(parts) = srt

-----------------------------------------------------------------------------
(* C16: the first non-empty window of a run, whether it is the first window  *)
(* or follows empty ones, is emitted with its raw times, and the accumulator *)
(* is then the end of its last cue.                                          *)
C16_FirstWindowUnshifted ==
    Stitching =>
    \A n \in 1..Len(parts) :
       (NonEmpty(Body(n)) /\ \A m \in 1..(n - 1) : Body(m) = <<>>) =>
          /\ Len(parts[n]) = Len(Body(n))
          /\ \A k \in 1..Len(Body(n)) :
                /\ parts[n][k].start = Body(n)[k].start
                /\ parts[n][k].end = Body(n)[k].end
          /\ n = Len(parts) => last_end = Last(Body(n)).end

\* the first non-empty window was the third one
C16_Witness ==
    /\ Stitching
    /\ Len(parts) = 3
    /\ Body(1) = <<>> /\ Body(2) = <<>> /\ NonEmpty(Body(3))
    /\ last_end = Last(Body(3)).end
    /\ last_end > 0

-----------------------------------------------------------------------------
(* C17: the accumulator is 0 when a run starts and no step of the run makes  *)
(* it smaller (the raw cue times served are non-negative).                   *)
C17_AccumulatorMonotone ==
    [][ /\ (pc = "idle" /\ pc' = "running") => last_end' = 0
        /\ (pc = "running" /\ pc' = "running") => last_end' >= last_end ]_vars

\* the accumulator has grown twice in one run
C17_Witness ==
    /\ Stitching
    /\ Len(parts) = 3
    /\ NonEmpty(Body(2)) /\ NonEmpty(Body(3))
    /\ Last(parts[2]).end > 0
    /\ last_end > Last(parts[2]).end

-----------------------------------------------------------------------------
(* C18: a call makes at most max(1, floor(E / dt)) requests for its end time *)
(* E, and once started it comes to an end (DONE or FAILED).                  *)
MaxFetches(e) == IF e \div dt > 1 THEN e \div dt ELSE 1

C18_FiniteWindowSequence ==
    /\ [](Len(fetched) <= MaxFetches(end_time))
    /\ (pc = "running") ~> (pc = "idle")

\* a call for the fallback duration has ended after exactly its 60 requests
C18_Witness ==
    /\ Stored
    /\ end_time = FallbackEnd
    /\ Len(fetched) = MaxFetches(FallbackEnd)

-----------------------------------------------------------------------------
(* C19: between calls the cached document and transcript belong together:    *)
(* both are still empty, or transcript is the flattening of the stored srt.  *)
C19_CacheConsistent ==
    pc = "idle" =>
        \/ (srt = EmptyStr /\ transcript = EmptyStr)
        \/ (Readable(srt) /\ transcript = MakeTs(srt))

-----------------------------------------------------------------------------
(* C20: on a handle built from metadata with one runtime entry h:m:s, a call *)
(* without end_time enumerates windows up to 3600*h + 60*m + s.              *)
C20_RuntimeFromMetadata ==
    ( /\ pc = "running"
      /\ Falsy(args[2])
      /\ served.ok
      /\ Len(served.runtime) = 1 )
    => end_time = RuntimeSeconds(served.runtime[1])

====
